---- MODULE Spec2Model ----
(***************************************************************************)
(* A model of ts-http-types (src/src/index.ts): the multi-value maps       *)
(* HttpHeaders and HttpQueryParameters, the request and response builders, *)
(* the exchange reader and the exchange writer.                            *)
(*                                                                         *)
(* Representation.  A JavaScript string is a sequence of one-character     *)
(* strings; a percent escape such as %3D is one element of the sequence.   *)
(* A JavaScript object with string keys, and a Map, is a sequence of       *)
(* [key, value] entries in insertion order.  A value of type               *)
(* string | string[] is [kind, vals]: kind "string" with vals = <<s>>, or  *)
(* kind "array" with vals the elements.  undefined and null are tagged     *)
(* records.  A thrown error is a record [ok |-> FALSE, error |-> message]. *)
(***************************************************************************)
EXTENDS Integers, Sequences, FiniteSets, TLC

VARIABLES
  rawMap,       \* the mapping handed to a multi-value map constructor
  headers,      \* the HttpHeaders instance built from rawMap
  parameters,   \* the HttpQueryParameters instance built from rawMap
  called,       \* the last accessor call on a multi-value map, with its result
  pathData,     \* the input of HttpRequestBuilder.fromPath
  pnqData,      \* the input of HttpRequestBuilder.fromPathnameAndQuery
  request,      \* the result of fromPath
  request2,     \* the result of fromPathnameAndQuery
  responseData, \* the input of HttpResponseBuilder.from
  response,     \* the result of HttpResponseBuilder.from
  json,         \* the document handed to HttpExchangeReader.fromJson
  exchange,     \* the result of HttpExchangeReader.fromJson
  written,      \* the exchanges handed to HttpExchangeWriter.write, in call order
  buffer,       \* HttpExchangeWriter.buffer
  reader,       \* the position of HttpExchangeReader.fromJsonLines in its lines
  delivered     \* the exchanges fromJsonLines has handed to the callback

vars == <<rawMap, headers, parameters, called, pathData, pnqData, request,
          request2, responseData, response, json, exchange, written, buffer,
          reader, delivered>>

mapVars == <<rawMap, headers, parameters, called>>
buildVars == <<pathData, pnqData, request, request2>>
responseVars == <<responseData, response>>
jsonVars == <<json, exchange>>
lineVars == <<written, buffer, reader, delivered>>

-----------------------------------------------------------------------------
(* Bounds of the model.                                                    *)

\* Largest number of names in an input mapping (headers or query).
MaxKeys == 2
\* Largest number of elements of an array value in an input mapping.
MaxVals == 2
\* Largest number of "&"-separated entries in the query string of a path.
MaxEntries == 2
\* Largest number of characters in one entry of a query string.
MaxEntryLen == 3
\* Largest number of exchanges written to one writer.
MaxWrites == 2
\* Largest number of pieces (JSON texts and newlines) in a text given to
\* fromJsonLines.
MaxPieces == 4

-----------------------------------------------------------------------------
(* JavaScript values.                                                      *)

Undefined == [tag |-> "undefined"]
Null == [tag |-> "null"]
Val(x) == [tag |-> "value", val |-> x]

IsDefined(o) == o.tag = "value"

\* The value of a variable no operation has assigned yet.
Idle == [tag |-> "idle"]

Ok(x) == [ok |-> TRUE, value |-> x]
Throw(message) == [ok |-> FALSE, error |-> message]

StringValue(s) == [kind |-> "string", vals |-> <<s>>]
ArrayValue(a) == [kind |-> "array", vals |-> a]

-----------------------------------------------------------------------------
(* Strings.                                                                *)

UpperCaseLetters ==
  <<"A", "B", "C", "D", "E", "F", "G", "H", "I", "J", "K", "L", "M",
    "N", "O", "P", "Q", "R", "S", "T", "U", "V", "W", "X", "Y", "Z">>

LowerCaseLetters ==
  <<"a", "b", "c", "d", "e", "f", "g", "h", "i", "j", "k", "l", "m",
    "n", "o", "p", "q", "r", "s", "t", "u", "v", "w", "x", "y", "z">>

LetterIndex(letters, c) ==
  IF \E i \in 1..Len(letters) : letters[i] = c
    THEN CHOOSE i \in 1..Len(letters) : letters[i] = c
    ELSE 0

\* String.prototype.toLowerCase
toLowerCase(s) ==
  [i \in 1..Len(s) |->
     IF LetterIndex(UpperCaseLetters, s[i]) # 0
       THEN LowerCaseLetters[LetterIndex(UpperCaseLetters, s[i])]
       ELSE s[i]]

\* String.prototype.toUpperCase
toUpperCase(s) ==
  [i \in 1..Len(s) |->
     IF LetterIndex(LowerCaseLetters, s[i]) # 0
       THEN UpperCaseLetters[LetterIndex(LowerCaseLetters, s[i])]
       ELSE s[i]]

\* String.prototype.indexOf for a one-character needle, 1-based; 0 when absent.
indexOf(s, c) ==
  IF \E i \in 1..Len(s) : s[i] = c
    THEN CHOOSE i \in 1..Len(s) : s[i] = c /\ \A j \in 1..(i - 1) : s[j] # c
    ELSE 0

\* String.prototype.split for a one-character separator: the empty string
\* splits into one empty string.
RECURSIVE split(_, _)
split(s, sep) ==
  IF indexOf(s, sep) = 0
    THEN <<s>>
    ELSE <<SubSeq(s, 1, indexOf(s, sep) - 1)>>
           \o split(SubSeq(s, indexOf(s, sep) + 1, Len(s)), sep)

\* All sequences over S of length at most n.
SeqsUpTo(S, n) == UNION {[1..k -> S] : k \in 0..n}

-----------------------------------------------------------------------------
(* Objects and Maps: sequences of [key, value] entries in insertion order. *)

HasKey(m, k) == \E i \in 1..Len(m) : m[i].key = k

\* m[k], for a key m holds.
ValueAt(m, k) == m[CHOOSE i \in 1..Len(m) : m[i].key = k].value

\* Map.prototype.set and obj[k] = v: an existing key keeps its position.
SetKey(m, k, v) ==
  IF HasKey(m, k)
    THEN [i \in 1..Len(m) |->
            IF m[i].key = k THEN [key |-> k, value |-> v] ELSE m[i]]
    ELSE Append(m, [key |-> k, value |-> v])

\* Map.prototype.get and obj[k]: undefined for a missing key.
GetKey(m, k) == IF HasKey(m, k) THEN Val(ValueAt(m, k)) ELSE Undefined

\* Object.keys, and the order of for...in and of Map.prototype.forEach.
Keys(m) == [i \in 1..Len(m) |-> m[i].key]

-----------------------------------------------------------------------------
(* The enumerations: objects from member name to member value.             *)

\* enum HttpMethod
HttpMethod ==
  <<[key |-> <<"C", "O", "N", "N", "E", "C", "T">>,
     value |-> <<"c", "o", "n", "n", "e", "c", "t">>],
    [key |-> <<"D", "E", "L", "E", "T", "E">>,
     value |-> <<"d", "e", "l", "e", "t", "e">>],
    [key |-> <<"G", "E", "T">>,
     value |-> <<"g", "e", "t">>],
    [key |-> <<"H", "E", "A", "D">>,
     value |-> <<"h", "e", "a", "d">>],
    [key |-> <<"O", "P", "T", "I", "O", "N", "S">>,
     value |-> <<"o", "p", "t", "i", "o", "n", "s">>],
    [key |-> <<"P", "A", "T", "C", "H">>,
     value |-> <<"p", "a", "t", "c", "h">>],
    [key |-> <<"P", "O", "S", "T">>,
     value |-> <<"p", "o", "s", "t">>],
    [key |-> <<"P", "U", "T">>,
     value |-> <<"p", "u", "t">>],
    [key |-> <<"T", "R", "A", "C", "E">>,
     value |-> <<"t", "r", "a", "c", "e">>]>>

\* enum HttpProtocol
HttpProtocol ==
  <<[key |-> <<"H", "T", "T", "P">>,
     value |-> <<"h", "t", "t", "p">>],
    [key |-> <<"H", "T", "T", "P", "S">>,
     value |-> <<"h", "t", "t", "p", "s">>]>>

-----------------------------------------------------------------------------
(* HttpHeaders.                                                            *)

\* One step of the constructor's forEach: a string becomes a one-element
\* array, and an empty array is not stored.
RECURSIVE HeadersFrom(_, _)
HeadersFrom(obj, map) ==
  IF obj = <<>>
    THEN map
    ELSE HeadersFrom(Tail(obj),
           IF Len(Head(obj).value.vals) > 0
             THEN SetKey(map, toLowerCase(Head(obj).key), Head(obj).value.vals)
             ELSE map)

\* new HttpHeaders(headers): headers is undefined or an object.
HttpHeaders(h) ==
  IF IsDefined(h) THEN HeadersFrom(h.val, <<>>) ELSE <<>>

\* HttpHeaders.get
HttpHeaders_get(map, headerName) ==
  LET values == GetKey(map, toLowerCase(headerName))
  IN IF IsDefined(values) /\ Len(values.val) > 0
       THEN Val(values.val[1])
       ELSE Null

\* HttpHeaders.getAll
HttpHeaders_getAll(map, headerName) ==
  LET values == GetKey(map, toLowerCase(headerName))
  IN IF IsDefined(values) THEN values.val ELSE <<>>

\* HttpHeaders.toJSON
HttpHeaders_toJSON(map) ==
  [i \in 1..Len(map) |->
     [key |-> map[i].key,
      value |-> IF Len(map[i].value) = 1
                  THEN StringValue(map[i].value[1])
                  ELSE ArrayValue(map[i].value)]]

-----------------------------------------------------------------------------
(* HttpQueryParameters.                                                    *)

RECURSIVE ParametersFrom(_, _)
ParametersFrom(obj, map) ==
  IF obj = <<>>
    THEN map
    ELSE ParametersFrom(Tail(obj),
           IF Len(Head(obj).value.vals) > 0
             THEN SetKey(map, toLowerCase(Head(obj).key), Head(obj).value.vals)
             ELSE map)

\* new HttpQueryParameters(parameters): parameters is undefined or an object.
HttpQueryParameters(p) ==
  IF IsDefined(p) THEN ParametersFrom(p.val, <<>>) ELSE <<>>

\* HttpQueryParameters.get
HttpQueryParameters_get(map, parameterName) ==
  LET values == GetKey(map, toLowerCase(parameterName))
  IN IF IsDefined(values) /\ Len(values.val) > 0
       THEN Val(values.val[1])
       ELSE Null

\* HttpQueryParameters.getAll
HttpQueryParameters_getAll(map, parameterName) ==
  LET values == GetKey(map, toLowerCase(parameterName))
  IN IF IsDefined(values) THEN values.val ELSE <<>>

\* A toJSON that collapses every name to its first value.
HttpQueryParameters_toJSON_collapsing(map) ==
  [i \in 1..Len(map) |->
     [key |-> map[i].key, value |-> StringValue(map[i].value[1])]]

\* HttpQueryParameters.toJSON
HttpQueryParameters_toJSON(map) ==
  [i \in 1..Len(map) |->
     [key |-> map[i].key,
      value |-> IF Len(map[i].value) = 1
                  THEN StringValue(map[i].value[1])
                  ELSE ArrayValue(map[i].value)]]

-----------------------------------------------------------------------------
(* URL encoding and parsing (the JavaScript library functions the builders *)
(* call).                                                                  *)

\* The characters encodeURIComponent escapes, with their escapes.  An escape
\* is one element of a string.
Escapes ==
  <<[raw |-> "=", escape |-> "%3D"], [raw |-> "&", escape |-> "%26"],
    [raw |-> "?", escape |-> "%3F"], [raw |-> "/", escape |-> "%2F"],
    [raw |-> "%", escape |-> "%25"], [raw |-> " ", escape |-> "%20"]>>

\* encodeURIComponent: letters are kept, reserved characters are escaped.
encodeURIComponent(s) ==
  [i \in 1..Len(s) |->
     IF \E e \in 1..Len(Escapes) : Escapes[e].raw = s[i]
       THEN Escapes[CHOOSE e \in 1..Len(Escapes) : Escapes[e].raw = s[i]].escape
       ELSE s[i]]

\* decodeURIComponent of a string: every escape becomes its character.
decodeString(s) ==
  [i \in 1..Len(s) |->
     IF \E e \in 1..Len(Escapes) : Escapes[e].escape = s[i]
       THEN Escapes[CHOOSE e \in 1..Len(Escapes) : Escapes[e].escape = s[i]].raw
       ELSE s[i]]

\* String(undefined)
UndefinedText == <<"u", "n", "d", "e", "f", "i", "n", "e", "d">>

\* decodeURIComponent(x) for x a string or undefined: undefined is first
\* converted to the text "undefined".
decodeURIComponent(x) ==
  IF IsDefined(x) THEN decodeString(x.val) ELSE UndefinedText

\* a[i] of a JavaScript array (1-based here): undefined past the end.
ElementAt(a, i) == IF i <= Len(a) THEN Val(a[i]) ELSE Undefined

\* new URL("file://" + path), for a text without "#": the text before the
\* first "/" or "?" is the host, pathname is what follows up to the first
\* "?" ("/" when that is empty), and search is "?" with what follows it, or
\* "" when nothing follows.
FileURL(path) ==
  LET q == indexOf(path, "?")
      beforeQuery == IF q = 0 THEN path ELSE SubSeq(path, 1, q - 1)
      afterQuery == IF q = 0 THEN <<>> ELSE SubSeq(path, q + 1, Len(path))
      slash == indexOf(beforeQuery, "/")
      p == IF slash = 0
             THEN <<>>
             ELSE SubSeq(beforeQuery, slash, Len(beforeQuery))
  IN [pathname |-> IF p = <<>> THEN <<"/">> ELSE p,
      search |-> IF afterQuery = <<>> THEN <<>> ELSE <<"?">> \o afterQuery]

\* String.prototype.substring(1)
substring1(s) == SubSeq(s, 2, Len(s))

-----------------------------------------------------------------------------
(* validateRequest and HttpRequestBuilder.                                 *)

\* !request[property]: undefined and the empty string are falsy, an
\* HttpHeaders or HttpQueryParameters instance never is.
IsFalsy(req, property) ==
  CASE property \in {"headers", "query"} -> FALSE
    [] OTHER -> ~IsDefined(req[property]) \/ req[property].val = <<>>

requiredProperties ==
  <<"method", "protocol", "host", "headers", "pathname", "query">>

\* validateRequest: throws for the first falsy required property.
validateRequest(req) ==
  IF \E i \in 1..Len(requiredProperties) : IsFalsy(req, requiredProperties[i])
    THEN LET first == CHOOSE i \in 1..Len(requiredProperties) :
                        /\ IsFalsy(req, requiredProperties[i])
                        /\ \A j \in 1..(i - 1) :
                             ~IsFalsy(req, requiredProperties[j])
         IN Throw("request." \o requiredProperties[first] \o " is required")
    ELSE Ok(req)

\* requestData.timestamp ? requestData.timestamp : undefined
TimestampOrUndefined(t) == IF IsDefined(t) THEN t ELSE Undefined

\* The loop of fromPath over the entries of the query string: each entry is
\* split on every "=", its first two parts are decoded, and the value is
\* pushed onto the array kept for the name.
RECURSIVE queryMapFrom(_, _)
queryMapFrom(entries, queryMap) ==
  IF entries = <<>>
    THEN queryMap
    ELSE LET pair == split(Head(entries), "=")
             parameterName == decodeURIComponent(ElementAt(pair, 1))
             parameterValue == decodeURIComponent(ElementAt(pair, 2))
             existingEntry == GetKey(queryMap, parameterName)
         IN queryMapFrom(Tail(entries),
              SetKey(queryMap, parameterName,
                     ArrayValue(
                       Append(IF IsDefined(existingEntry)
                                THEN existingEntry.val.vals
                                ELSE <<>>,
                              parameterValue))))

\* HttpRequestBuilder.fromPath
fromPath(requestData) ==
  LET url == FileURL(requestData.path.val)
      queryString == substring1(url.search)
      queryMap == queryMapFrom(split(queryString, "&"), <<>>)
      query == HttpQueryParameters(Val(queryMap))
  IN validateRequest(
       [timestamp |-> TimestampOrUndefined(requestData.timestamp),
        method |-> requestData.method,
        protocol |-> requestData.protocol,
        host |-> requestData.host,
        headers |-> HttpHeaders(requestData.headers),
        body |-> requestData.body,
        path |-> requestData.path,
        pathname |-> Val(url.pathname),
        query |-> query])

\* for (const entry of value): the elements of an array, the characters of
\* a string.  (value instanceof String is false for both.)
EntriesOf(value) ==
  IF value.kind = "string"
    THEN [i \in 1..Len(value.vals[1]) |-> <<value.vals[1][i]>>]
    ELSE value.vals

\* undefined + "..." in a string concatenation
TextOf(x) == IF IsDefined(x) THEN x.val ELSE UndefinedText

\* The inner loop of fromPathnameAndQuery for one key: each entry appends
\* "?" or "&", the encoded key, "=" and the encoded entry to path.
RECURSIVE appendPairs(_, _, _)
appendPairs(acc, key, entries) ==
  IF entries = <<>>
    THEN acc
    ELSE appendPairs(
           [first |-> FALSE,
            path |-> Val(TextOf(acc.path)
                           \o (IF acc.first THEN <<"?">> ELSE <<"&">>)
                           \o encodeURIComponent(key) \o <<"=">>
                           \o encodeURIComponent(Head(entries)))],
           key, Tail(entries))

\* The outer loop of fromPathnameAndQuery over the keys of the query.
RECURSIVE appendQuery(_, _)
appendQuery(acc, queryObject) ==
  IF queryObject = <<>>
    THEN acc
    ELSE appendQuery(
           appendPairs(acc, Head(queryObject).key,
                       EntriesOf(Head(queryObject).value)),
           Tail(queryObject))

\* HttpRequestBuilder.fromPathnameAndQuery
fromPathnameAndQuery(requestData) ==
  LET path == IF IsDefined(requestData.query)
                THEN appendQuery([first |-> TRUE,
                                  path |-> requestData.pathname],
                                 requestData.query.val).path
                ELSE requestData.pathname
      query == HttpQueryParameters(requestData.query)
  IN validateRequest(
       [timestamp |-> TimestampOrUndefined(requestData.timestamp),
        method |-> requestData.method,
        protocol |-> requestData.protocol,
        host |-> requestData.host,
        headers |-> HttpHeaders(requestData.headers),
        body |-> requestData.body,
        path |-> path,
        pathname |-> requestData.pathname,
        query |-> query])

-----------------------------------------------------------------------------
(* Timestamps, status codes and HttpResponseBuilder.                       *)

\* A point in time t as a Date, as the ISO text JSON carries, and as the
\* number of milliseconds Date.parse returns.
DateOf(t) == [is |-> "Date", t |-> t]
IsoTextOf(t) == [is |-> "string", t |-> t]
MillisOf(t) == [is |-> "number", t |-> t]

\* new Date(x) for an ISO text or a number of milliseconds.
NewDate(x) == DateOf(x.t)

\* Date.parse(text)
DateParse(x) == MillisOf(x.t)

\* A status code: a number, a text, or NaN.
NumberCode(n) == [kind |-> "number", num |-> n, text |-> <<>>]
TextCode(s) == [kind |-> "string", num |-> 0, text |-> s]
NaNCode == [kind |-> "NaN", num |-> 0, text |-> <<>>]

Digits == <<"0", "1", "2", "3", "4", "5", "6", "7", "8", "9">>

IsDigit(c) == \E d \in 1..Len(Digits) : Digits[d] = c
DigitValue(c) == (CHOOSE d \in 1..Len(Digits) : Digits[d] = c) - 1

\* The number a sequence of digits denotes.
RECURSIVE NumberOfDigits(_)
NumberOfDigits(s) ==
  IF s = <<>>
    THEN 0
    ELSE 10 * NumberOfDigits(SubSeq(s, 1, Len(s) - 1)) + DigitValue(s[Len(s)])

\* parseInt(text), for a text without sign or white space: the number its
\* leading digits denote, NaN when it starts with no digit.
parseInt(s) ==
  LET n == IF \A i \in 1..Len(s) : IsDigit(s[i])
             THEN Len(s)
             ELSE (CHOOSE i \in 1..Len(s) :
                     /\ ~IsDigit(s[i])
                     /\ \A j \in 1..(i - 1) : IsDigit(s[j])) - 1
  IN IF n = 0 THEN NaNCode ELSE NumberCode(NumberOfDigits(SubSeq(s, 1, n)))

\* HttpResponseBuilder.from
HttpResponseBuilder_from(data) ==
  [timestamp |-> IF IsDefined(data.timestamp) /\ data.timestamp.val.is = "Date"
                   THEN data.timestamp
                   ELSE IF IsDefined(data.timestamp)
                          THEN Val(DateParse(data.timestamp.val))
                          ELSE Undefined,
   statusCode |-> IF data.statusCode.kind = "string"
                    THEN parseInt(data.statusCode.text)
                    ELSE data.statusCode,
   headers |-> HttpHeaders(data.headers),
   body |-> data.body]

-----------------------------------------------------------------------------
(* HttpExchangeReader.fromJson.  A parsed document is a record of the      *)
(* request and response fields, each undefined when the document lacks it. *)

\* x ? ... : ... for a string or a timestamp text: undefined and "" are falsy.
IsTruthyText(x) == IsDefined(x) /\ x.val # <<>>

\* HttpProtocol[(parsedRequest.protocol as string).toUpperCase()]
HttpProtocolOf(text) == GetKey(HttpProtocol, toUpperCase(text))

\* A lookup of the enumeration by the text as written, without folding its
\* case.
HttpMethodOf_exact(text) == GetKey(HttpMethod, text)

\* HttpMethod[(parsedRequest.method as string).toUpperCase()]
HttpMethodOf(text) == GetKey(HttpMethod, toUpperCase(text))

\* A selection that looks at pathname before path.
requestShape_pathnameFirst(parsedRequest) ==
  IF IsTruthyText(parsedRequest.pathname)
    THEN "pathname"
    ELSE IF IsTruthyText(parsedRequest.path) THEN "path" ELSE "neither"

\* The branch fromJson takes: if (parsedRequest.path) ... else if
\* (parsedRequest.pathname) ... else throw.
requestShape(parsedRequest) ==
  IF IsTruthyText(parsedRequest.path)
    THEN "path"
    ELSE IF IsTruthyText(parsedRequest.pathname) THEN "pathname" ELSE "neither"

\* HttpExchangeReader.fromJson, from the parsed document on.  Reading
\* toUpperCase of a protocol or method that is undefined throws a TypeError.
fromJson(parsedObject) ==
  LET parsedRequest == parsedObject.request
      parsedResponse == parsedObject.response
      requestTimestamp == IF IsDefined(parsedRequest.timestamp)
                            THEN Val(NewDate(parsedRequest.timestamp.val))
                            ELSE Null
      protocol == HttpProtocolOf(parsedRequest.protocol.val)
      method == HttpMethodOf(parsedRequest.method.val)
      built ==
        IF requestShape(parsedRequest) = "path"
          THEN fromPath([timestamp |-> requestTimestamp,
                         method |-> method,
                         protocol |-> protocol,
                         host |-> parsedRequest.host,
                         headers |-> parsedRequest.headers,
                         body |-> parsedRequest.body,
                         path |-> parsedRequest.path])
          ELSE IF requestShape(parsedRequest) = "pathname"
                 THEN fromPathnameAndQuery(
                        [timestamp |-> requestTimestamp,
                         method |-> method,
                         protocol |-> protocol,
                         host |-> parsedRequest.host,
                         headers |-> parsedRequest.headers,
                         body |-> parsedRequest.body,
                         pathname |-> parsedRequest.pathname,
                         query |-> parsedRequest.query])
                 ELSE Throw("Either 'path' or 'pathname' is required")
      responseTimestamp == IF IsDefined(parsedResponse.timestamp)
                             THEN Val(NewDate(parsedResponse.timestamp.val))
                             ELSE Null
      responseHeaders == HttpHeaders(parsedResponse.headers)
  IN IF ~IsDefined(parsedRequest.protocol) \/ ~IsDefined(parsedRequest.method)
       THEN Throw("TypeError: Cannot read property 'toUpperCase' of undefined")
       ELSE IF ~built.ok
              THEN built
              ELSE Ok([request |-> built.value,
                       response |->
                         [timestamp |-> TimestampOrUndefined(responseTimestamp),
                          statusCode |-> parsedResponse.statusCode,
                          headers |-> responseHeaders,
                          body |-> parsedResponse.body]])

-----------------------------------------------------------------------------
(* JSON text, HttpExchangeWriter.write and HttpExchangeReader.fromJsonLines.*)
(* A text is a sequence of pieces: the JSON text of one document, or a     *)
(* newline.                                                                *)

NewLine == [piece |-> "newline"]
JsonText(document) == [piece |-> "json", document |-> document]

\* Date.prototype.toJSON
DateToJSON(d) == IsoTextOf(d.t)

\* What JSON.stringify keeps of a timestamp: a Date as its ISO text, a
\* number as it is, undefined not at all.
StringifiedTimestamp(t) ==
  IF IsDefined(t) /\ t.val.is = "Date" THEN Val(DateToJSON(t.val)) ELSE t

\* What JSON.stringify keeps of a status code: NaN becomes null.
StringifiedCode(c) ==
  IF c.kind = "NaN" THEN [kind |-> "null", num |-> 0, text |-> <<>>] ELSE c

\* How JSON.stringify writes a string that may be absent: a newline inside
\* it is written as the two characters \n, which is one element here.  (The
\* bodies are the only strings of the inputs that hold a newline.)
JSONquote(x) ==
  IF IsDefined(x)
    THEN Val([i \in 1..Len(x.val) |->
                IF x.val[i] = "\n" THEN "\\n" ELSE x.val[i]])
    ELSE x

\* How JSON.parse reads such a string back.
JSONunquote(x) ==
  IF IsDefined(x)
    THEN Val([i \in 1..Len(x.val) |->
                IF x.val[i] = "\\n" THEN "\n" ELSE x.val[i]])
    ELSE x

\* The document JSON.stringify(exchange) writes: the maps through toJSON.
stringify(e) ==
  [request |-> [timestamp |-> StringifiedTimestamp(e.request.timestamp),
                method |-> e.request.method,
                protocol |-> e.request.protocol,
                host |-> e.request.host,
                headers |-> Val(HttpHeaders_toJSON(e.request.headers)),
                body |-> JSONquote(e.request.body),
                path |-> e.request.path,
                pathname |-> e.request.pathname,
                query |-> Val(HttpQueryParameters_toJSON(e.request.query))],
   response |-> [timestamp |-> StringifiedTimestamp(e.response.timestamp),
                 statusCode |-> StringifiedCode(e.response.statusCode),
                 headers |-> Val(HttpHeaders_toJSON(e.response.headers)),
                 body |-> JSONquote(e.response.body)]]

\* A write that puts the new line in front of the buffer.
write_prepending(buf, e) == <<JsonText(stringify(e)), NewLine>> \o buf

\* HttpExchangeWriter.write: buffer += JSON.stringify(exchange) + "\n"
write(buf, e) == buf \o <<JsonText(stringify(e)), NewLine>>

\* JSON.parse(line): a line that is the JSON text of one document parses to
\* that document, any other line is a syntax error.
JSONparse(line) ==
  IF Len(line) = 1 /\ line[1].piece = "json"
    THEN Ok([request |-> [line[1].document.request EXCEPT
                            !.body = JSONunquote(@)],
             response |-> [line[1].document.response EXCEPT
                             !.body = JSONunquote(@)]])
    ELSE Throw("SyntaxError")

\* HttpExchangeReader.fromJson(line)
fromJsonText(line) ==
  IF JSONparse(line).ok THEN fromJson(JSONparse(line).value) ELSE JSONparse(line)

\* A forEach turn that hands the callback's exchanges over newest first.
forEachLine_prepending(rd, out) ==
  LET line == rd.lines[rd.index]
      parsed == fromJsonText(line)
      after == IF rd.index = Len(rd.lines) THEN "returned" ELSE "running"
  IN IF line = <<>>
       THEN [reader |-> [rd EXCEPT !.index = rd.index + 1, !.state = after],
             delivered |-> out]
       ELSE IF ~parsed.ok
              THEN [reader |-> [rd EXCEPT !.state = "thrown",
                                          !.error = parsed.error],
                    delivered |-> out]
              ELSE [reader |-> [rd EXCEPT !.index = rd.index + 1,
                                          !.state = after],
                    delivered |-> <<parsed.value>> \o out]

\* A forEach turn that passes over a line fromJson rejects.
forEachLine_skippingBad(rd, out) ==
  LET line == rd.lines[rd.index]
      parsed == fromJsonText(line)
      after == IF rd.index = Len(rd.lines) THEN "returned" ELSE "running"
  IN IF line = <<>> \/ ~parsed.ok
       THEN [reader |-> [rd EXCEPT !.index = rd.index + 1, !.state = after],
             delivered |-> out]
       ELSE [reader |-> [rd EXCEPT !.index = rd.index + 1, !.state = after],
             delivered |-> Append(out, parsed.value)]

\* A forEach turn that takes back every delivery when a line is rejected.
forEachLine_undoing(rd, out) ==
  LET line == rd.lines[rd.index]
      parsed == fromJsonText(line)
      after == IF rd.index = Len(rd.lines) THEN "returned" ELSE "running"
  IN IF line = <<>>
       THEN [reader |-> [rd EXCEPT !.index = rd.index + 1, !.state = after],
             delivered |-> out]
       ELSE IF ~parsed.ok
              THEN [reader |-> [rd EXCEPT !.state = "thrown",
                                          !.error = parsed.error],
                    delivered |-> <<>>]
              ELSE [reader |-> [rd EXCEPT !.index = rd.index + 1,
                                          !.state = after],
                    delivered |-> Append(out, parsed.value)]

\* One turn of the forEach of fromJsonLines, on the line at rd.index: an
\* empty line is skipped, a line that fromJson rejects ends the call with
\* the error, any other line is parsed and handed to the callback.
forEachLine(rd, out) ==
  LET line == rd.lines[rd.index]
      parsed == fromJsonText(line)
      after == IF rd.index = Len(rd.lines) THEN "returned" ELSE "running"
  IN IF line = <<>>
       THEN [reader |-> [rd EXCEPT !.index = rd.index + 1, !.state = after],
             delivered |-> out]
       ELSE IF ~parsed.ok
              THEN [reader |-> [rd EXCEPT !.state = "thrown",
                                          !.error = parsed.error],
                    delivered |-> out]
              ELSE [reader |-> [rd EXCEPT !.index = rd.index + 1,
                                          !.state = after],
                    delivered |-> Append(out, parsed.value)]

-----------------------------------------------------------------------------
(* The multi-value maps as a state machine: a map is built from rawMap and *)
(* then read through get, getAll and toJSON.                               *)

\* Names given to the constructors, and names looked up.
SuppliedNames == {<<"a", "b">>, <<"A", "b">>, <<"c">>}
LookupNames == {<<"a", "b">>, <<"A", "B">>, <<"a", "B">>, <<"c">>, <<"C">>}

\* Values given to the constructors: a string, or an array of strings.
ElementStrings == {<<"x">>, <<"y">>}
SuppliedValues ==
  {StringValue(s) : s \in ElementStrings \cup {<<>>}}
    \cup {ArrayValue(a) : a \in SeqsUpTo(ElementStrings, MaxVals)}

\* Objects with at most n distinct keys of K and values of V.
ObjectsOver(K, V, n) ==
  {o \in SeqsUpTo([key : K, value : V], n) :
     \A i, j \in 1..Len(o) : i # j => o[i].key # o[j].key}

RawMaps == ObjectsOver(SuppliedNames, SuppliedValues, MaxKeys)

IdleBuild ==
  /\ pathData = Idle /\ pnqData = Idle /\ request = Idle /\ request2 = Idle
IdleResponse == responseData = Idle /\ response = Idle
IdleJson == json = Idle /\ exchange = Idle
IdleLines ==
  /\ written = <<>> /\ buffer = <<>> /\ reader = Idle /\ delivered = <<>>
IdleMap ==
  /\ rawMap = Idle /\ headers = Idle /\ parameters = Idle /\ called = Idle

InitMap ==
  /\ rawMap \in {Undefined} \cup {Val(o) : o \in RawMaps}
  /\ headers = Idle
  /\ parameters = Idle
  /\ called = Idle
  /\ IdleBuild /\ IdleResponse /\ IdleJson /\ IdleLines

NewHttpHeaders ==
  /\ headers = Idle /\ parameters = Idle
  /\ headers' = Val(HttpHeaders(rawMap))
  /\ UNCHANGED <<rawMap, parameters, called>>
  /\ UNCHANGED <<buildVars, responseVars, jsonVars, lineVars>>

NewHttpQueryParameters ==
  /\ headers = Idle /\ parameters = Idle
  /\ parameters' = Val(HttpQueryParameters(rawMap))
  /\ UNCHANGED <<rawMap, headers, called>>
  /\ UNCHANGED <<buildVars, responseVars, jsonVars, lineVars>>

HeadersGet ==
  /\ IsDefined(headers)
  /\ \E n \in LookupNames :
       called' = [on |-> "headers", op |-> "get", name |-> n,
                  result |-> HttpHeaders_get(headers.val, n)]
  /\ UNCHANGED <<rawMap, headers, parameters>>
  /\ UNCHANGED <<buildVars, responseVars, jsonVars, lineVars>>

HeadersGetAll ==
  /\ IsDefined(headers)
  /\ \E n \in LookupNames :
       called' = [on |-> "headers", op |-> "getAll", name |-> n,
                  result |-> HttpHeaders_getAll(headers.val, n)]
  /\ UNCHANGED <<rawMap, headers, parameters>>
  /\ UNCHANGED <<buildVars, responseVars, jsonVars, lineVars>>

HeadersToJSON ==
  /\ IsDefined(headers)
  /\ called' = [on |-> "headers", op |-> "toJSON", name |-> <<>>,
                result |-> HttpHeaders_toJSON(headers.val)]
  /\ UNCHANGED <<rawMap, headers, parameters>>
  /\ UNCHANGED <<buildVars, responseVars, jsonVars, lineVars>>

ParametersGet ==
  /\ IsDefined(parameters)
  /\ \E n \in LookupNames :
       called' = [on |-> "parameters", op |-> "get", name |-> n,
                  result |-> HttpQueryParameters_get(parameters.val, n)]
  /\ UNCHANGED <<rawMap, headers, parameters>>
  /\ UNCHANGED <<buildVars, responseVars, jsonVars, lineVars>>

ParametersGetAll ==
  /\ IsDefined(parameters)
  /\ \E n \in LookupNames :
       called' = [on |-> "parameters", op |-> "getAll", name |-> n,
                  result |-> HttpQueryParameters_getAll(parameters.val, n)]
  /\ UNCHANGED <<rawMap, headers, parameters>>
  /\ UNCHANGED <<buildVars, responseVars, jsonVars, lineVars>>

ParametersToJSON ==
  /\ IsDefined(parameters)
  /\ called' = [on |-> "parameters", op |-> "toJSON", name |-> <<>>,
                result |-> HttpQueryParameters_toJSON(parameters.val)]
  /\ UNCHANGED <<rawMap, headers, parameters>>
  /\ UNCHANGED <<buildVars, responseVars, jsonVars, lineVars>>

NextMap ==
  \/ NewHttpHeaders
  \/ NewHttpQueryParameters
  \/ HeadersGet
  \/ HeadersGetAll
  \/ HeadersToJSON
  \/ ParametersGet
  \/ ParametersGetAll
  \/ ParametersToJSON

SpecMap == InitMap /\ [][NextMap]_vars

-----------------------------------------------------------------------------
(* The request builders as a state machine: fromPath is applied to a path  *)
(* and fromPathnameAndQuery to a pathname and a query that correspond to   *)
(* it, with the other fields the same.                                     *)

\* Array.prototype.join for a one-character separator.
RECURSIVE join(_, _)
join(parts, sep) ==
  IF parts = <<>>
    THEN <<>>
    ELSE IF Len(parts) = 1
           THEN parts[1]
           ELSE parts[1] \o <<sep>> \o join(Tail(parts), sep)

\* The (name, value) pairs of a query object, in insertion order of names
\* and, within a name, in order of values; a string is one value.
RECURSIVE PairsOf(_)
PairsOf(obj) ==
  IF obj = <<>>
    THEN <<>>
    ELSE [i \in 1..Len(Head(obj).value.vals) |->
            [name |-> Head(obj).key, value |-> Head(obj).value.vals[i]]]
           \o PairsOf(Tail(obj))

\* The URL-encoded, "&"-joined serialisation of pairs.
SerialisedPairs(pairs) ==
  join([i \in 1..Len(pairs) |->
          encodeURIComponent(pairs[i].name) \o <<"=">>
            \o encodeURIComponent(pairs[i].value)], "&")

\* The path a pathname and a query object serialise to.
SerialisedPath(pathname, obj) ==
  IF PairsOf(obj) = <<>>
    THEN pathname
    ELSE pathname \o <<"?">> \o SerialisedPairs(PairsOf(obj))

\* The part of a path before the first "?", and the part after it.
PathnameOf(path) ==
  IF indexOf(path, "?") = 0 THEN path ELSE SubSeq(path, 1, indexOf(path, "?") - 1)
QueryStringOf(path) ==
  IF indexOf(path, "?") = 0
    THEN <<>>
    ELSE SubSeq(path, indexOf(path, "?") + 1, Len(path))

\* The decoded pair of one entry, split on its first "=" only.
PairOfEntry(entry) ==
  LET eq == indexOf(entry, "=")
  IN IF eq = 0
       THEN [name |-> decodeString(entry), value |-> <<>>]
       ELSE [name |-> decodeString(SubSeq(entry, 1, eq - 1)),
             value |-> decodeString(SubSeq(entry, eq + 1, Len(entry)))]

\* The decoded pairs of a query string, in order of appearance.
PairsOfQueryString(queryString) ==
  LET entries == SelectSeq(split(queryString, "&"), LAMBDA e : e # <<>>)
  IN [i \in 1..Len(entries) |-> PairOfEntry(entries[i])]

\* The query object of pairs: repeated names accumulate into one array.
RECURSIVE ObjectOfPairs(_, _)
ObjectOfPairs(pairs, obj) ==
  IF pairs = <<>>
    THEN obj
    ELSE ObjectOfPairs(Tail(pairs),
           SetKey(obj, Head(pairs).name,
                  ArrayValue(Append(IF HasKey(obj, Head(pairs).name)
                                      THEN ValueAt(obj, Head(pairs).name).vals
                                      ELSE <<>>,
                                    Head(pairs).value))))

\* The decomposition of a path into a pathname and a query object.
DecomposedQuery(path) ==
  ObjectOfPairs(PairsOfQueryString(QueryStringOf(path)), <<>>)

Pathnames == {<<"/">>, <<"/", "p">>}

\* Paths: a pathname, alone or followed by "?" and a query string.
EntryChars == {"a", "A", "=", "%3D"}
QueryEntries == SeqsUpTo(EntryChars, MaxEntryLen)
QueryStrings ==
  {join(entries, "&") : entries \in SeqsUpTo(QueryEntries, MaxEntries) \ {<<>>}}
Paths ==
  Pathnames \cup {pn \o <<"?">> \o qs : pn \in Pathnames, qs \in QueryStrings}

\* Query objects: names and values as given to fromPathnameAndQuery.
QueryNames == {<<"a">>, <<"A">>, <<"=">>}
QueryElements == {<<"x">>, <<"y", "=">>}
QueryValues ==
  {StringValue(s) : s \in {<<>>, <<"x">>, <<"x", "y">>, <<"&">>}}
    \cup {ArrayValue(a) : a \in SeqsUpTo(QueryElements, MaxVals)}
QueryObjects == ObjectsOver(QueryNames, QueryValues, MaxKeys)

\* The fields the two builders are given alike.
SomeHeaders ==
  <<[key |-> <<"A", "b">>, value |-> ArrayValue(<<<<"x">>, <<"y">>>>)],
    [key |-> <<"c">>, value |-> StringValue(<<"z">>)]>>

PathRequest(path) ==
  [timestamp |-> Val(DateOf(1)),
   method |-> Val(ValueAt(HttpMethod, <<"G", "E", "T">>)),
   protocol |-> Val(ValueAt(HttpProtocol, <<"H", "T", "T", "P", "S">>)),
   host |-> Val(<<"h">>),
   headers |-> Val(SomeHeaders),
   body |-> Val(<<"b">>),
   path |-> Val(path)]

PathnameAndQueryRequest(pathname, queryObject) ==
  [timestamp |-> Val(DateOf(1)),
   method |-> Val(ValueAt(HttpMethod, <<"G", "E", "T">>)),
   protocol |-> Val(ValueAt(HttpProtocol, <<"H", "T", "T", "P", "S">>)),
   host |-> Val(<<"h">>),
   headers |-> Val(SomeHeaders),
   body |-> Val(<<"b">>),
   pathname |-> Val(pathname),
   query |-> Val(queryObject)]

InitBuild ==
  /\ \/ \E pathname \in Pathnames, queryObject \in QueryObjects :
          /\ pnqData = PathnameAndQueryRequest(pathname, queryObject)
          /\ pathData = PathRequest(SerialisedPath(pathname, queryObject))
     \/ \E path \in Paths :
          /\ pathData = PathRequest(path)
          /\ pnqData = PathnameAndQueryRequest(PathnameOf(path),
                                               DecomposedQuery(path))
  /\ request = Idle
  /\ request2 = Idle
  /\ IdleMap /\ IdleResponse /\ IdleJson /\ IdleLines

FromPath ==
  /\ request = Idle
  /\ request' = fromPath(pathData)
  /\ UNCHANGED <<pathData, pnqData, request2>>
  /\ UNCHANGED <<mapVars, responseVars, jsonVars, lineVars>>

FromPathnameAndQuery ==
  /\ request2 = Idle
  /\ request2' = fromPathnameAndQuery(pnqData)
  /\ UNCHANGED <<pathData, pnqData, request>>
  /\ UNCHANGED <<mapVars, responseVars, jsonVars, lineVars>>

NextBuild ==
  \/ FromPath
  \/ FromPathnameAndQuery

SpecBuild == InitBuild /\ [][NextBuild]_vars

-----------------------------------------------------------------------------
(* The reader and the response builder as a state machine: fromJson is     *)
(* applied to a parsed document, HttpResponseBuilder.from to response data.*)

\* Every way of writing a name in upper and lower case letters.
RECURSIVE CaseVariants(_)
CaseVariants(name) ==
  IF name = <<>>
    THEN {<<>>}
    ELSE {<<c>> \o rest : c \in {Head(name), toLowerCase(<<Head(name)>>)[1]},
                          rest \in CaseVariants(Tail(name))}

\* Method and protocol texts: every member in every letter case, and texts
\* that name no member.
MethodTexts ==
  UNION {CaseVariants(HttpMethod[i].key) : i \in 1..Len(HttpMethod)}
    \cup {<<"f", "e", "t", "c", "h">>, <<"g", "e">>, <<>>}
ProtocolTexts ==
  UNION {CaseVariants(HttpProtocol[i].key) : i \in 1..Len(HttpProtocol)}
    \cup {<<"f", "t", "p">>, <<"h", "t", "t", "p", "x">>, <<>>}

StatusCodes ==
  {NumberCode(404), NumberCode(200), TextCode(<<"4", "0", "4">>),
   TextCode(<<"2", "0", "0">>), TextCode(<<"7">>)}

Document(method, protocol, host, path, pathname, query, statusCode) ==
  [request |-> [timestamp |-> Val(IsoTextOf(1)),
                method |-> method,
                protocol |-> protocol,
                host |-> host,
                headers |-> Val(SomeHeaders),
                body |-> Val(<<"b">>),
                path |-> path,
                pathname |-> pathname,
                query |-> query],
   response |-> [timestamp |-> Undefined,
                 statusCode |-> statusCode,
                 headers |-> Val(SomeHeaders),
                 body |-> Undefined]]

SomePath == <<"/", "p", "?", "a", "=", "x">>
SomeQuery == <<[key |-> <<"A">>, value |-> ArrayValue(<<<<"x">>, <<"y">>>>)]>>

\* Documents in every spelling of method and protocol, otherwise valid.
SpelledDocuments ==
  {Document(Val(m), Val(p), Val(<<"h">>), Val(SomePath), Undefined, Undefined,
            NumberCode(404)) :
     m \in MethodTexts, p \in ProtocolTexts}

\* Documents with each field present, empty or absent.
ShapedDocuments ==
  {Document(m, p, h, path, pathname, query, code) :
     m \in {Undefined, Val(<<"p", "o", "s", "t">>), Val(<<"P", "o", "s", "t">>),
            Val(<<"f", "e", "t", "c", "h">>)},
     p \in {Undefined, Val(<<"H", "T", "T", "P", "S">>), Val(<<"f", "t", "p">>)},
     h \in {Undefined, Val(<<"h">>)},
     path \in {Undefined, Val(<<>>), Val(<<"/", "p">>), Val(SomePath)},
     pathname \in {Undefined, Val(<<>>), Val(<<"/", "q">>)},
     query \in {Undefined, Val(<<>>), Val(SomeQuery)},
     code \in StatusCodes}

ResponseDatas ==
  [timestamp : {Undefined, Val(DateOf(1)), Val(IsoTextOf(1))},
   statusCode : StatusCodes,
   headers : {Undefined, Val(SomeHeaders)},
   body : {Undefined, Val(<<"b">>)}]

InitJson ==
  /\ \/ /\ json \in SpelledDocuments \cup ShapedDocuments
        /\ responseData = Idle
     \/ /\ json = Idle
        /\ responseData \in ResponseDatas
  /\ exchange = Idle
  /\ response = Idle
  /\ IdleMap /\ IdleBuild /\ IdleLines

FromJson ==
  /\ json # Idle
  /\ exchange = Idle
  /\ exchange' = fromJson(json)
  /\ UNCHANGED <<json, responseVars, mapVars, buildVars, lineVars>>

ResponseFrom ==
  /\ responseData # Idle
  /\ response = Idle
  /\ response' = Val(HttpResponseBuilder_from(responseData))
  /\ UNCHANGED <<responseData, jsonVars, mapVars, buildVars, lineVars>>

NextJson ==
  \/ FromJson
  \/ ResponseFrom

SpecJson == InitJson /\ [][NextJson]_vars

-----------------------------------------------------------------------------
(* The writer and the reader as a state machine: exchanges built by the    *)
(* builders are written to one writer, and fromJsonLines then reads the    *)
(* writer's buffer line by line.                                           *)

BuiltRequests ==
  {fromPath(PathRequest(path)).value :
     path \in {<<"/", "p">>, SomePath,
               <<"/", "p", "?", "a", "=", "x", "&", "a", "=", "y">>}}
    \cup {fromPathnameAndQuery(PathnameAndQueryRequest(<<"/", "q">>, q)).value :
            q \in {<<>>,
                   <<[key |-> <<"a">>, value |-> StringValue(<<"x">>)]>>,
                   <<[key |-> <<"a">>, value |-> ArrayValue(<<<<"x">>>>)]>>,
                   SomeQuery}}

BuiltResponses ==
  {HttpResponseBuilder_from(data) :
     data \in [timestamp : {Val(DateOf(2))},
               statusCode : {NumberCode(404), TextCode(<<"2", "0", "0">>)},
               headers : {Val(SomeHeaders)},
               body : {Val(<<"b">>), Val(<<"b", "\n", "c">>)}]}

Exchanges == [request : BuiltRequests, response : BuiltResponses]

InitLines ==
  /\ written = <<>>
  /\ buffer = <<>>
  /\ reader = Idle
  /\ delivered = <<>>
  /\ IdleMap /\ IdleBuild /\ IdleResponse /\ IdleJson

Write ==
  /\ reader = Idle
  /\ Len(written) < MaxWrites
  /\ \E e \in Exchanges :
       /\ written' = Append(written, e)
       /\ buffer' = write(buffer, e)
  /\ UNCHANGED <<reader, delivered>>
  /\ UNCHANGED <<mapVars, buildVars, responseVars, jsonVars>>

\* fromJsonLines is called with the buffer: jsonLines.split("\n")
FromJsonLines ==
  /\ reader = Idle
  /\ reader' = [lines |-> split(buffer, NewLine), index |-> 1,
                state |-> "running", error |-> ""]
  /\ UNCHANGED <<written, buffer, delivered>>
  /\ UNCHANGED <<mapVars, buildVars, responseVars, jsonVars>>

ForEachLine ==
  /\ reader # Idle
  /\ reader.state = "running"
  /\ reader' = forEachLine(reader, delivered).reader
  /\ delivered' = forEachLine(reader, delivered).delivered
  /\ UNCHANGED <<written, buffer>>
  /\ UNCHANGED <<mapVars, buildVars, responseVars, jsonVars>>

NextLines ==
  \/ Write
  \/ FromJsonLines
  \/ ForEachLine

SpecLines == InitLines /\ [][NextLines]_vars

-----------------------------------------------------------------------------
(* fromJsonLines on any text: the text is a sequence of newlines, JSON      *)
(* texts of documents fromJson accepts, JSON texts of documents it rejects, *)
(* and texts that are not JSON.                                            *)

\* A text JSON.parse rejects.
Malformed == [piece |-> "malformed"]

ValidDocuments ==
  {Document(Val(<<"g", "e", "t">>), Val(<<"h", "t", "t", "p">>), Val(<<"h">>),
            Val(SomePath), Undefined, Undefined, NumberCode(200)),
   Document(Val(<<"P", "O", "S", "T">>), Val(<<"h", "t", "t", "p", "s">>),
            Val(<<"h">>), Undefined, Val(<<"/", "q">>), Val(SomeQuery),
            NumberCode(404))}

\* A document without host, and one with neither path nor pathname.
InvalidDocuments ==
  {Document(Val(<<"g", "e", "t">>), Val(<<"h", "t", "t", "p">>), Undefined,
            Val(SomePath), Undefined, Undefined, NumberCode(200)),
   Document(Val(<<"g", "e", "t">>), Val(<<"h", "t", "t", "p">>), Val(<<"h">>),
            Undefined, Undefined, Undefined, NumberCode(200))}

Pieces ==
  {NewLine, Malformed}
    \cup {JsonText(d) : d \in ValidDocuments \cup InvalidDocuments}

Texts == SeqsUpTo(Pieces, MaxPieces)

InitRead ==
  /\ buffer \in Texts
  /\ written = <<>>
  /\ reader = Idle
  /\ delivered = <<>>
  /\ IdleMap /\ IdleBuild /\ IdleResponse /\ IdleJson

NextRead ==
  \/ FromJsonLines
  \/ ForEachLine

SpecRead == InitRead /\ [][NextRead]_vars

\* Where the call of fromJsonLines is: not made yet, running, returned or
\* thrown.
CallState == IF reader = Idle THEN "idle" ELSE reader.state

\* fromJsonLines is synchronous: once called, its forEach runs on until it
\* returns or throws.  This is weak fairness of ForEachLine, written out:
\* ForEachLine is enabled exactly while the call is running, and each of
\* its steps changes reader, so a call that stays running takes
\* ForEachLine steps again and again.
SpecReadFair ==
  SpecRead /\ ([]<>(CallState # "running") \/ []<><<ForEachLine>>_vars)

-----------------------------------------------------------------------------
(* The request builders on inputs that lack fields: each of method,        *)
(* protocol, host, headers, pathname and query is given or absent.         *)

IncompletePathRequests ==
  [timestamp : {Val(DateOf(1))},
   method : {Undefined, Val(ValueAt(HttpMethod, <<"G", "E", "T">>))},
   protocol : {Undefined, Val(ValueAt(HttpProtocol, <<"H", "T", "T", "P", "S">>))},
   host : {Undefined, Val(<<"h">>)},
   headers : {Undefined, Val(SomeHeaders)},
   body : {Undefined, Val(<<"b">>)},
   path : {Val(<<"/", "p">>), Val(SomePath)}]

IncompletePathnameAndQueryRequests ==
  [timestamp : {Val(DateOf(1))},
   method : {Undefined, Val(ValueAt(HttpMethod, <<"G", "E", "T">>))},
   protocol : {Undefined, Val(ValueAt(HttpProtocol, <<"H", "T", "T", "P", "S">>))},
   host : {Undefined, Val(<<"h">>)},
   headers : {Undefined, Val(SomeHeaders)},
   body : {Val(<<"b">>)},
   pathname : {Undefined, Val(<<"/", "q">>)},
   query : {Undefined, Val(<<>>), Val(SomeQuery)}]

InitValidate ==
  /\ pathData \in IncompletePathRequests
  /\ pnqData \in IncompletePathnameAndQueryRequests
  /\ request = Idle
  /\ request2 = Idle
  /\ IdleMap /\ IdleResponse /\ IdleJson /\ IdleLines

SpecValidate == InitValidate /\ [][NextBuild]_vars

-----------------------------------------------------------------------------
(* Claims about the multi-value maps (checked under SpecMap).              *)

EqualsIgnoringCase(a, b) == toUpperCase(a) = toUpperCase(b)

\* The values supplied in obj for the name n, ignoring case, in the order
\* supplied.
RECURSIVE SuppliedFor(_, _)
SuppliedFor(obj, n) ==
  IF obj = <<>>
    THEN <<>>
    ELSE (IF EqualsIgnoringCase(Head(obj).key, n)
            THEN Head(obj).value.vals
            ELSE <<>>) \o SuppliedFor(Tail(obj), n)

SuppliedInRawMap(n) ==
  IF IsDefined(rawMap) THEN SuppliedFor(rawMap.val, n) ELSE <<>>

\* C6: for a map built from any input mapping and every name n in any letter
\* case, getAll(n) is the full sequence of values supplied for the name equal
\* to n ignoring case, in the order supplied (empty when there is none), and
\* get(n) is the first element of that sequence, or null when it is empty.
C6_GetAllReturnsAllSupplied ==
  called # Idle =>
    /\ called.op = "getAll" => called.result = SuppliedInRawMap(called.name)
    /\ called.op = "get" =>
         called.result = IF SuppliedInRawMap(called.name) = <<>>
                           THEN Null
                           ELSE Val(SuppliedInRawMap(called.name)[1])

\* The part of C6 the code keeps: when at most one supplied name equals n
\* ignoring case, get and getAll answer as C6 says.
C6_UniqueNameLookup ==
  (/\ called # Idle
   /\ called.op \in {"get", "getAll"}
   /\ IsDefined(rawMap)
   /\ Cardinality({i \in 1..Len(rawMap.val) :
                     EqualsIgnoringCase(rawMap.val[i].key, called.name)}) <= 1)
    => C6_GetAllReturnsAllSupplied

\* What toJSON must give for a name holding the values vs.
SerialisedAs(js, name, vs) ==
  /\ Len(vs) = 0 => ~HasKey(js, name)
  /\ Len(vs) = 1 => HasKey(js, name) /\ ValueAt(js, name) = StringValue(vs[1])
  /\ Len(vs) >= 2 => HasKey(js, name) /\ ValueAt(js, name) = ArrayValue(vs)

StoredNames == {toLowerCase(n) : n \in SuppliedNames}

SuppliedOnce(i) ==
  Cardinality({j \in 1..Len(rawMap.val) :
                 EqualsIgnoringCase(rawMap.val[j].key, rawMap.val[i].key)}) = 1

\* C7: toJSON, for headers and query parameters alike, gives a name holding
\* exactly one value as a bare string (also when it was supplied as a
\* one-element array), a name holding two or more values as the array of all
\* of them in order, and a name holding no values not at all.
C7_ToJSONSingleOrArray ==
  (called # Idle /\ called.op = "toJSON") =>
    /\ \A n \in StoredNames :
         SerialisedAs(called.result, n,
                      IF called.on = "headers"
                        THEN HttpHeaders_getAll(headers.val, n)
                        ELSE HttpQueryParameters_getAll(parameters.val, n))
    /\ \A i \in 1..Len(called.result) : called.result[i].key \in StoredNames
    /\ IsDefined(rawMap) =>
         \A i \in 1..Len(rawMap.val) :
           SuppliedOnce(i) =>
             SerialisedAs(called.result, toLowerCase(rawMap.val[i].key),
                          rawMap.val[i].value.vals)

\* C7's case: a name supplied as a one-element array beside a name with two
\* values, serialised by HttpQueryParameters.toJSON.
C7_Witness ==
  /\ called # Idle
  /\ called.on = "parameters"
  /\ called.op = "toJSON"
  /\ rawMap = Val(<<[key |-> <<"A", "b">>, value |-> ArrayValue(<<<<"x">>>>)],
                    [key |-> <<"c">>,
                     value |-> ArrayValue(<<<<"x">>, <<"y">>>>)]>>)
  /\ called.result = <<[key |-> <<"a", "b">>, value |-> StringValue(<<"x">>)],
                       [key |-> <<"c">>,
                        value |-> ArrayValue(<<<<"x">>, <<"y">>>>)]>>

-----------------------------------------------------------------------------
(* Claims about the request builders (checked under SpecBuild).            *)

KeySet(m) == {m[i].key : i \in 1..Len(m)}

\* Two query maps with the same getAll result for every name.
SameQuery(q1, q2) ==
  \A n \in KeySet(q1) \cup KeySet(q2) :
    HttpQueryParameters_getAll(q1, n) = HttpQueryParameters_getAll(q2, n)

\* Two header maps with the same getAll result for every name.
SameHeaders(h1, h2) ==
  \A n \in KeySet(h1) \cup KeySet(h2) :
    HttpHeaders_getAll(h1, n) = HttpHeaders_getAll(h2, n)

\* Two requests that are field-for-field equal.
SameRequest(r1, r2) ==
  /\ r1.timestamp = r2.timestamp
  /\ r1.method = r2.method
  /\ r1.protocol = r2.protocol
  /\ r1.host = r2.host
  /\ SameHeaders(r1.headers, r2.headers)
  /\ r1.body = r2.body
  /\ r1.path = r2.path
  /\ r1.pathname = r2.pathname
  /\ SameQuery(r1.query, r2.query)

\* C1: fromPath given a path and fromPathnameAndQuery given the pathname and
\* query the path decomposes into (or that serialise to the path), with the
\* other fields the same, return field-for-field equal requests; paths with
\* no query string and queries with no entries included.
C1_BuildersAgree ==
  (request # Idle /\ request2 # Idle) =>
    /\ request.ok
    /\ request2.ok
    /\ SameRequest(request.value, request2.value)

\* The (name, value) pairs a query map holds.
RECURSIVE PairsOfMap(_)
PairsOfMap(map) ==
  IF map = <<>>
    THEN <<>>
    ELSE [i \in 1..Len(Head(map).value) |->
            [name |-> Head(map).key, value |-> Head(map).value[i]]]
           \o PairsOfMap(Tail(map))

PathMatchesQuery(r) ==
  r.path.val = IF r.query # <<>>
                 THEN r.pathname.val \o <<"?">>
                        \o SerialisedPairs(PairsOfMap(r.query))
                 ELSE r.pathname.val

\* C3: in every request fromPath or fromPathnameAndQuery returns, path is
\* pathname followed by "?" and the URL-encoded "&"-joined serialisation of
\* the query map's pairs when the query map has an entry, and is pathname
\* when it has none.
C3_PathIsPathnameAndQuery ==
  /\ (request # Idle /\ request.ok) => PathMatchesQuery(request.value)
  /\ (request2 # Idle /\ request2.ok) => PathMatchesQuery(request2.value)

\* C4: fromPathnameAndQuery derives path as pathname followed by one encoded
\* name=value pair per (name, value) of the query input, a single string
\* being one pair carrying the whole string, in insertion order, "?" before
\* the first pair and "&" before the others, and no "?" without a pair.
C4_PathSerialisesQuery ==
  request2 # Idle =>
    /\ request2.ok
    /\ request2.value.path =
         Val(SerialisedPath(pnqData.pathname.val, pnqData.query.val))

\* The values of the pairs whose name equals n ignoring case, in order.
ValuesFor(pairs, n) ==
  LET mine == SelectSeq(pairs, LAMBDA pr : EqualsIgnoringCase(pr.name, n))
  IN [i \in 1..Len(mine) |-> mine[i].value]

\* C5: fromPath returns the input path verbatim, the part before the first
\* "?" as pathname, and a query map whose getAll gives, for every name, the
\* decoded values of the pairs of that name in order of appearance (pairs
\* split on "&", each on its first "=" only), and that holds no entry that
\* comes from no pair of the query string.
C5_FromPathDecodesQuery ==
  request # Idle =>
    /\ request.ok
    /\ request.value.path = pathData.path
    /\ request.value.pathname = Val(PathnameOf(pathData.path.val))
    /\ LET pairs == PairsOfQueryString(QueryStringOf(pathData.path.val))
       IN \A n \in KeySet(request.value.query)
                     \cup {pairs[i].name : i \in 1..Len(pairs)} :
            HttpQueryParameters_getAll(request.value.query, n)
              = ValuesFor(pairs, n)

-----------------------------------------------------------------------------
(* Claims about the reader and the response builder (checked under         *)
(* SpecJson).                                                              *)

\* The members of an enumeration whose name equals text ignoring case.
MembersNamed(enum, text) ==
  {i \in 1..Len(enum) : EqualsIgnoringCase(enum[i].key, text)}

ValidationErrors ==
  {"request.method is required", "request.protocol is required",
   "Either 'path' or 'pathname' is required"}

HasMethodAndProtocol ==
  IsDefined(json.request.method) /\ IsDefined(json.request.protocol)

\* C8: a method or protocol text that equals a member's name in any letter
\* case parses to that member, whose value is its lowercase token; a text
\* that matches no member ignoring case makes fromJson fail with a
\* validation error, and no exchange is returned.
C8_EnumNormalisation ==
  (exchange # Idle /\ HasMethodAndProtocol) =>
    LET methods == MembersNamed(HttpMethod, json.request.method.val)
        protocols == MembersNamed(HttpProtocol, json.request.protocol.val)
    IN /\ (methods = {} \/ protocols = {}) =>
            ~exchange.ok /\ exchange.error \in ValidationErrors
       /\ exchange.ok =>
            /\ \E i \in methods :
                 /\ exchange.value.request.method = Val(HttpMethod[i].value)
                 /\ HttpMethod[i].value = toLowerCase(json.request.method.val)
            /\ \E i \in protocols :
                 /\ exchange.value.request.protocol = Val(HttpProtocol[i].value)
                 /\ HttpProtocol[i].value
                      = toLowerCase(json.request.protocol.val)
       /\ (/\ methods # {} /\ protocols # {}
           /\ IsTruthyText(json.request.host)
           /\ IsTruthyText(json.request.path)) => exchange.ok

\* C8's case: "pOsT" over "hTTps" parsed to POST and HTTPS.
C8_Witness ==
  /\ exchange # Idle
  /\ json.request.method = Val(<<"p", "O", "s", "T">>)
  /\ json.request.protocol = Val(<<"h", "T", "T", "p", "s">>)
  /\ exchange.ok
  /\ exchange.value.request.method = Val(<<"p", "o", "s", "t">>)
  /\ exchange.value.request.protocol = Val(<<"h", "t", "t", "p", "s">>)

\* What a request built by fromPath from the document shows: the path
\* verbatim, the pathname taken from the path.
BuiltFromPath ==
  /\ exchange.ok =>
       /\ exchange.value.request.path = json.request.path
       /\ exchange.value.request.pathname
            = Val(FileURL(json.request.path.val).pathname)
  /\ ~exchange.ok => exchange.error # "Either 'path' or 'pathname' is required"

\* What a request built by fromPathnameAndQuery from the document shows: the
\* pathname verbatim, the query of the document, the path led by the pathname.
BuiltFromPathnameAndQuery ==
  /\ exchange.ok =>
       /\ exchange.value.request.pathname = json.request.pathname
       /\ SameQuery(exchange.value.request.query,
                    HttpQueryParameters(json.request.query))
       /\ SubSeq(exchange.value.request.path.val, 1,
                 Len(json.request.pathname.val)) = json.request.pathname.val
  /\ ~exchange.ok => exchange.error # "Either 'path' or 'pathname' is required"

FailedForNeither ==
  ~exchange.ok /\ exchange.error = "Either 'path' or 'pathname' is required"

\* C9 as claimed: a parsed request that has a path field is built by
\* fromPath; otherwise one that has a pathname field is built by
\* fromPathnameAndQuery; one that has neither makes fromJson fail with the
\* error that one of the two is required.
C9_ShapeByField ==
  exchange # Idle =>
    /\ IsDefined(json.request.path) => BuiltFromPath
    /\ (~IsDefined(json.request.path) /\ IsDefined(json.request.pathname)) =>
         BuiltFromPathnameAndQuery
    /\ (~IsDefined(json.request.path) /\ ~IsDefined(json.request.pathname)) =>
         FailedForNeither

\* C9 as amended: a field that is the empty string counts as absent, and the
\* selection is reached only when method and protocol are texts; without one
\* of them fromJson fails with a TypeError before it.
C9_ShapeByNonEmptyField ==
  exchange # Idle =>
    /\ (HasMethodAndProtocol /\ IsTruthyText(json.request.path)) =>
         BuiltFromPath
    /\ (/\ HasMethodAndProtocol
        /\ ~IsTruthyText(json.request.path)
        /\ IsTruthyText(json.request.pathname)) => BuiltFromPathnameAndQuery
    /\ (/\ HasMethodAndProtocol
        /\ ~IsTruthyText(json.request.path)
        /\ ~IsTruthyText(json.request.pathname)) => FailedForNeither
    /\ ~HasMethodAndProtocol =>
         ~exchange.ok /\ exchange.error \notin ValidationErrors

\* C9's case: a document with an empty path and a pathname, built from the
\* pathname and the query.
C9_Witness ==
  /\ exchange # Idle
  /\ json.request.path = Val(<<>>)
  /\ json.request.pathname = Val(<<"/", "q">>)
  /\ json.request.query = Val(SomeQuery)
  /\ exchange.ok
  /\ exchange.value.request.pathname = Val(<<"/", "q">>)
  /\ exchange.value.request.path
       = Val(<<"/", "q", "?", "A", "=", "x", "&", "A", "=", "y">>)

\* C10: every response fromJson or HttpResponseBuilder.from returns has an
\* integer statusCode; a statusCode given as text is returned as the integer
\* the text denotes.
C10_StatusCodeIsInteger ==
  /\ (exchange # Idle /\ exchange.ok) =>
       LET given == json.response.statusCode
           got == exchange.value.response.statusCode
       IN /\ got.kind = "number"
          /\ given.kind = "string" => got.num = NumberOfDigits(given.text)
          /\ given.kind = "number" => got = given
  /\ response # Idle =>
       LET given == responseData.statusCode
           got == response.val.statusCode
       IN /\ got.kind = "number"
          /\ given.kind = "string" => got.num = NumberOfDigits(given.text)
          /\ given.kind = "number" => got = given

\* The part of C10 the code keeps: HttpResponseBuilder.from returns the
\* integer a statusCode text denotes.
C10_BuilderParsesText ==
  response # Idle =>
    LET given == responseData.statusCode
        got == response.val.statusCode
    IN /\ got.kind = "number"
       /\ given.kind = "string" => got.num = NumberOfDigits(given.text)
       /\ given.kind = "number" => got = given

-----------------------------------------------------------------------------
(* Claims about the writer and the reader (checked under SpecLines).       *)

\* An exchange read back with every field of the written one.
ReadBackEqual(w, r) ==
  /\ r.request.method = w.request.method
  /\ r.request.protocol = w.request.protocol
  /\ r.request.host = w.request.host
  /\ r.request.body = w.request.body
  /\ r.request.path = w.request.path
  /\ r.request.pathname = w.request.pathname
  /\ SameHeaders(r.request.headers, w.request.headers)
  /\ SameQuery(r.request.query, w.request.query)
  /\ r.response.statusCode = w.response.statusCode
  /\ r.response.body = w.response.body
  /\ SameHeaders(r.response.headers, w.response.headers)

\* C2: reading writer.buffer with fromJsonLines delivers, for the i-th
\* written exchange, an exchange with the same method, protocol, host, body,
\* path, pathname and statusCode, and with headers and query that give the
\* same getAll result for every name; an empty query map reads back empty.
C2_RoundTripLossless ==
  reader # Idle =>
    /\ reader.state # "thrown"
    /\ reader.state = "returned" => Len(delivered) = Len(written)
    /\ \A i \in 1..Len(delivered) : ReadBackEqual(written[i], delivered[i])

-----------------------------------------------------------------------------
(* Claims about fromJsonLines on any text (checked under SpecRead and      *)
(* SpecReadFair).                                                          *)

IsPrefix(s, t) == Len(s) <= Len(t) /\ SubSeq(t, 1, Len(s)) = s

IsNonEmpty(line) == line # <<>>

\* The non-empty lines of the text, in the order of the text.
NonEmptyLines == SelectSeq(split(buffer, NewLine), IsNonEmpty)

IsValidLine(line) == fromJsonText(line).ok

AllLinesValid == \A i \in 1..Len(NonEmptyLines) : IsValidLine(NonEmptyLines[i])

\* The exchanges parsed from the first n non-empty lines.
ExchangesOfFirst(n) == [i \in 1..n |-> fromJsonText(NonEmptyLines[i]).value]

\* C11: given text whose non-empty lines are all valid exchanges,
\* fromJsonLines invokes the callback exactly once per non-empty line, in the
\* order of the lines, each time with the exchange parsed from that line;
\* empty lines cause no callback and no error: the call never throws, what
\* has been delivered is always the exchanges of the first non-empty lines,
\* and the call goes on to return with one delivery per non-empty line.
C11_OneCallbackPerNonEmptyLine ==
  /\ []((CallState # "idle" /\ AllLinesValid) =>
          /\ CallState # "thrown"
          /\ Len(delivered) <= Len(NonEmptyLines)
          /\ delivered = ExchangesOfFirst(Len(delivered))
          /\ CallState = "returned" =>
               Len(delivered) = Len(NonEmptyLines))
  /\ (CallState # "idle" /\ AllLinesValid) ~>
       (/\ CallState = "returned"
        /\ delivered = ExchangesOfFirst(Len(NonEmptyLines)))

\* A call has returned on a text with two valid lines and empty lines,
\* among them the one after the trailing newline.
C11_Witness ==
  /\ CallState = "returned"
  /\ AllLinesValid
  /\ Len(NonEmptyLines) = 2
  /\ Len(delivered) = 2
  /\ delivered[1] # delivered[2]
  /\ buffer[Len(buffer)] = NewLine

\* The place among the non-empty lines of the first line fromJson rejects, 0
\* when it rejects none.
FirstFailing ==
  IF AllLinesValid
    THEN 0
    ELSE CHOOSE k \in 1..Len(NonEmptyLines) :
           /\ ~IsValidLine(NonEmptyLines[k])
           /\ \A j \in 1..(k - 1) : IsValidLine(NonEmptyLines[j])

\* The place of that line among all lines of the text.
FirstFailingLine ==
  LET lines == split(buffer, NewLine)
  IN CHOOSE i \in 1..Len(lines) :
       /\ lines[i] # <<>> /\ ~IsValidLine(lines[i])
       /\ \A j \in 1..(i - 1) : lines[j] = <<>> \/ IsValidLine(lines[j])

\* C14: when some non-empty line of the text is malformed JSON or fails
\* validation, the call of fromJsonLines fails as a whole: it never returns
\* normally, it never goes past the first failing line (that line is not
\* skipped, and no later line is parsed or delivered), and it goes on to
\* throw the error of the first failing line.
C14_FailFast ==
  /\ []((CallState # "idle" /\ ~AllLinesValid) =>
          /\ CallState # "returned"
          /\ reader.index <= FirstFailingLine
          /\ Len(delivered) < FirstFailing
          /\ CallState = "thrown" =>
               /\ reader.index = FirstFailingLine
               /\ reader.error = fromJsonText(NonEmptyLines[FirstFailing]).error)
  /\ (CallState # "idle" /\ ~AllLinesValid) ~>
       (/\ CallState = "thrown"
        /\ reader.error = fromJsonText(NonEmptyLines[FirstFailing]).error)

\* A call has thrown on a text that has a valid line after the failing one.
C14_Witness ==
  /\ CallState = "thrown"
  /\ FirstFailing < Len(NonEmptyLines)
  /\ IsValidLine(NonEmptyLines[Len(NonEmptyLines)])
  /\ reader.error # ""

\* The exchanges of the valid non-empty lines of the text, in order.
ValidExchanges ==
  LET valid == SelectSeq(NonEmptyLines, IsValidLine)
  IN [i \in 1..Len(valid) |-> fromJsonText(valid[i]).value]

\* C15: fromJsonLines parses and delivers line by line: when the k-th
\* non-empty line is the first that fails, then by the time the call has
\* thrown the callback has been invoked, in order, for exactly the k-1
\* non-empty lines before it; a delivery is never undone (each step keeps
\* what was delivered and adds at most one exchange), and what has been
\* delivered is always a prefix of the exchanges of the text's valid lines.
C15_DeliveredBeforeFailure ==
  /\ [](CallState = "thrown" =>
          delivered = ExchangesOfFirst(FirstFailing - 1))
  /\ [](IsPrefix(delivered, ValidExchanges))
  /\ [][/\ IsPrefix(delivered, delivered')
        /\ Len(delivered') <= Len(delivered) + 1]_vars

\* A call has thrown on the second or a later non-empty line, after
\* delivering the lines before it.
C15_Witness ==
  /\ CallState = "thrown"
  /\ FirstFailing >= 2
  /\ Len(delivered) = FirstFailing - 1

-----------------------------------------------------------------------------
(* Claims about the writer (checked under SpecLines).                      *)

\* The lines of n write calls, one after the other: for each exchange its
\* JSON serialisation followed by one newline.
RECURSIVE LinesOfWrites(_)
LinesOfWrites(exchanges) ==
  IF exchanges = <<>>
    THEN <<>>
    ELSE LinesOfWrites(SubSeq(exchanges, 1, Len(exchanges) - 1))
           \o <<JsonText(stringify(exchanges[Len(exchanges)])), NewLine>>

HasRawNewline(x) == IsDefined(x) /\ \E i \in 1..Len(x.val) : x.val[i] = "\n"

\* A line that is the JSON text of one document, with no newline inside it
\* and with path, pathname and query in its request.
IsCompleteJsonLine(line) ==
  /\ Len(line) = 1
  /\ line[1].piece = "json"
  /\ JSONparse(line).ok
  /\ ~HasRawNewline(line[1].document.request.body)
  /\ ~HasRawNewline(line[1].document.response.body)
  /\ IsDefined(line[1].document.request.path)
  /\ IsDefined(line[1].document.request.pathname)
  /\ IsDefined(line[1].document.request.query)

\* C12: after n write calls the buffer is the concatenation, in call order,
\* of n lines, each the JSON serialisation of its exchange followed by one
\* newline; every line is valid JSON without a raw newline and its request
\* carries path, pathname and query; and every step leaves the buffer that
\* existed before it as a prefix of the buffer.
C12_AppendOnlyLines ==
  /\ [](buffer = LinesOfWrites(written))
  /\ [](LET lines == split(buffer, NewLine)
        IN /\ Len(lines) = Len(written) + 1
           /\ lines[Len(lines)] = <<>>
           /\ \A i \in 1..Len(written) : IsCompleteJsonLine(lines[i]))
  /\ [][IsPrefix(buffer, buffer')]_vars

\* Two different exchanges have been written, one with a newline in a body.
C12_Witness ==
  /\ Len(written) = 2
  /\ written[1] # written[2]
  /\ HasRawNewline(written[1].response.body)

-----------------------------------------------------------------------------
(* Claims about required-field validation (checked under SpecValidate).    *)

\* The fields of requiredProperties that are inputs of each builder.
RequiredOfPath == <<"method", "protocol", "host", "headers">>
RequiredOfPathnameAndQuery == requiredProperties

IsAbsent(data, field) == ~IsDefined(data[field])

SomeAbsent(data, fields) == \E i \in 1..Len(fields) : IsAbsent(data, fields[i])

\* The first field, in the order of fields, that data lacks.
FirstAbsent(data, fields) ==
  fields[CHOOSE i \in 1..Len(fields) :
           /\ IsAbsent(data, fields[i])
           /\ \A j \in 1..(i - 1) : ~IsAbsent(data, fields[j])]

\* The outcome the claim gives for an input that lacks a required field.
FailsNamingFirstAbsent(result, data, fields) ==
  SomeAbsent(data, fields) =>
    result = Throw("request." \o FirstAbsent(data, fields) \o " is required")

\* C13: whenever at least one of method, protocol, host, headers, pathname,
\* query is absent from the input of fromPath or fromPathnameAndQuery,
\* construction fails with the error that names the first absent field in
\* that order, and no Request is returned.
C13_FirstAbsentFieldNamed ==
  /\ request # Idle =>
       FailsNamingFirstAbsent(request, pathData, RequiredOfPath)
  /\ request2 # Idle =>
       FailsNamingFirstAbsent(request2, pnqData, RequiredOfPathnameAndQuery)

\* The fields validateRequest can find missing: those that are texts.
TextFieldsOfPath == <<"method", "protocol", "host">>
TextFieldsOfPathnameAndQuery == <<"method", "protocol", "host", "pathname">>

\* What the builders do: the first absent field among method, protocol, host
\* and pathname is named; absent headers or an absent query are taken as
\* empty, and alone do not make construction fail.
C13_FirstAbsentTextFieldNamed ==
  /\ request # Idle =>
       /\ FailsNamingFirstAbsent(request, pathData, TextFieldsOfPath)
       /\ ~SomeAbsent(pathData, TextFieldsOfPath) =>
            request.ok /\ (IsAbsent(pathData, "headers") =>
                             request.value.headers = <<>>)
  /\ request2 # Idle =>
       /\ FailsNamingFirstAbsent(request2, pnqData,
                                 TextFieldsOfPathnameAndQuery)
       /\ ~SomeAbsent(pnqData, TextFieldsOfPathnameAndQuery) =>
            request2.ok /\ (IsAbsent(pnqData, "query") =>
                              request2.value.query = <<>>)

====
